---- MODULE Spec2Model ----
(***************************************************************************)
(* A model of the mutation fuzzer of src/fuzzer.py (class Fuzzer).         *)
(*                                                                         *)
(* A Python character is a one-character string; a Python str is the       *)
(* sequence of its characters (the empty str is <<>>).  Inside a mutator   *)
(* the str is turned into a list of its characters, one element of which   *)
(* is overwritten by a table literal; "".join(...) is modelled by Join,    *)
(* which concatenates the characters of every element.                    *)
(*                                                                         *)
(* Probabilities are in tenths: random.random() is a draw from 0..9 and    *)
(* a chance c in [0,1] is the integer 10c.                                 *)
(***************************************************************************)
EXTENDS Integers, Sequences, FiniteSets, TLC

VARIABLES
    \* the engine (Fuzzer.__init__)
    _mutators,        \* list of mutator identities
    _candidates,      \* list of recorded inputs
    _error_limit,     \* the retry bound the mutators read
    error_limit,      \* the attribute set_error_limit writes: <<>> while absent
    \* the frame of run
    pc,               \* "idle", "trial", "gen", "test", "mutate_all", "mutate", "done"
    original_input, inputs,
    mutation_chance, trials, mutation_depth, with_ret_val,
    t, d, i, ret,     \* trial and generation counters, list position, _mutate_all's ret
    \* the frame of one mutator call
    mpc,              \* "idle", "loop", "special", "returned", "raised"
    mutator, arg, mutatable, index, letter, result,
    \* what an observer of the execution records
    outcome,          \* how the last run ended: "none", "returned", "TestError", "IndexError"
    calls,            \* test-function calls made by the current run
    budget,           \* the work of all runs so far (see MaxWork)
    runs,             \* calls of run so far
    hits,             \* the strings passed to the test function whose call signalled a hit
    last,             \* the last test-function call of the list: <<what func did, hit>>
    applied,          \* the mutators the current (or last) _mutate decision applied
    drawn,            \* the last draw of the decision under way or just made:
                      \* <<mutator, "passed" | "failed" | "unchecked", whether
                      \* an earlier draw of the decision failed its check>>
    draws,            \* _indexed_choice calls made by the current mutator call
    limit_arg         \* the argument of the last set_error_limit call, 0 before any

engine == <<_mutators, _candidates, _error_limit, error_limit>>
config == <<original_input, mutation_chance, trials, mutation_depth, with_ret_val>>
frame  == <<pc, inputs, t, d, i, ret>>
mframe == <<mpc, mutator, arg, mutatable, index, letter, result, draws>>
observed == <<outcome, calls, hits, last, applied, drawn>>
spent == <<budget, runs>>
vars == <<engine, config, frame, mframe, observed, spent, limit_arg>>

(***************************************************************************)
(* Bounds of the model.                                                    *)
(***************************************************************************)
MaxWork == 2        \* test-function calls over all runs of a behaviour, a run
                    \* that makes none counting as one; the trials and
                    \* mutation_depth arguments range over 0..MaxWork
MaxPop == 2         \* length of a seed list
MaxAdded == 1       \* mutators registered with add_mutator
MaxLen == 2         \* length of a str handed to a single mutator call
MaxLimitArg == 2    \* argument of set_error_limit

(***************************************************************************)
(* Character tables (Fuzzer.__init__).                                     *)
(***************************************************************************)
_lowercase == <<"a","b","c","d","e","f","g","h","i","j","k","l","m",
                "n","o","p","q","r","s","t","u","v","w","x","y","z">>
_uppercase == <<"A","B","C","D","E","F","G","H","I","J","K","L","M",
                "N","O","P","Q","R","S","T","U","V","W","X","Y","Z">>
_special == <<".", "*", "#">>
_numbers == <<"0","1","2","3","4","5","6","7","8","9">>

\* A dict literal, as the sequence of its key: value items in source order.
leet_items ==
    << <<"a", <<"4","@">>>>, <<"A", <<"4","@">>>>, <<"i", <<"1","!">>>>,
       <<"I", <<"1","!">>>>, <<"t", <<"7">>>>, <<"T", <<"7">>>>,
       <<"o", <<"0">>>>, <<"O", <<"0">>>>, <<"s", <<"5">>>>, <<"S", <<"5">>>>,
       <<"V", <<"\\/">>>>, <<"v", <<"\\/">>>>, <<"e", <<"3">>>>,
       <<"E", <<"3">>>>, <<"g", <<"9">>>>, <<"G", <<"9">>>>,
       <<"C", <<"(","K">>>>, <<"c", <<"(","k">>>>, <<"K", <<"C">>>>,
       <<"k", <<"c">>>> >>

\* A character outside ASCII is written as its code point, "U+00E0" for a
\* with grave: one character, like every other element of a table.
non_latin_items ==
    << <<"c", <<"U+00A2","U+00A9","U+00C7","U+00E7">>>>, <<"S", <<"$">>>>,
       <<"E", <<"U+20AC","U+00C8","U+00C9","U+00CA","U+00CB">>>>, <<"C", <<"U+00A9","U+00C7","U+00E7">>>>,
       <<"a", <<"U+00AA">>>>, <<"R", <<"U+00AE">>>>,
       <<"A", <<"U+00C0","U+00C1","U+00C2","U+00C3","U+00C4","U+00C5">>>>, <<"I", <<"U+00CC","U+00CD","U+00CE","U+00CF">>>>,
       <<"D", <<"U+00D0">>>>, <<"N", <<"U+00D1">>>>,
       <<"O", <<"U+00D2","U+00D3","U+00D4","U+00D5","U+00D6","U+00D8","U+00F0","U+00F8">>>>, <<"X", <<"U+00D7">>>>,
       <<"x", <<"U+00D7">>>>, <<"U", <<"U+00D9","U+00DA","U+00DB","U+00DC">>>>, <<"Y", <<"U+00DD">>>>,
       <<"P", <<"U+00DE">>>>, <<"p", <<"U+00DE">>>>, <<"B", <<"U+00DF">>>>,
       <<"a", <<"U+00E0","U+00E1","U+00E2","U+00E3","U+00E4","U+00E5">>>>, <<"e", <<"U+00E8","U+00E9","U+00EA","U+00EB">>>>,
       <<"i", <<"U+00EC","U+00ED","U+00EE","U+00EF">>>>, <<"o", <<"U+00F0","U+00F2","U+00F3","U+00F4","U+00F5","U+00F6","U+00F8">>>>,
       <<"n", <<"U+00F1">>>>, <<"u", <<"U+00F9","U+00FA","U+00FB","U+00FC">>>>, <<"y", <<"U+00FD","U+00FF">>>>,
       <<"H", <<"U+0124","U+0126">>>>, <<"h", <<"U+0125">>>>, <<"k", <<"U+0137">>>> >>

\* Python's dict display: a key written twice keeps its last value.
DictOf(items) ==
    [key \in {items[j][1] : j \in 1..Len(items)} |->
        items[CHOOSE j \in 1..Len(items) :
                 /\ items[j][1] = key
                 /\ \A j2 \in (j+1)..Len(items) : items[j2][1] # key][2]]

_leet == DictOf(leet_items)
_non_latin == DictOf(non_latin_items)

Range(list) == {list[j] : j \in 1..Len(list)}

\* list.index(x): the first position holding x.
IndexOf(list, x) == CHOOSE j \in 1..Len(list) : list[j] = x /\ \A j2 \in 1..(j-1) : list[j2] # x

\* The characters of a table literal: every literal of the tables is one
\* character, except the leet literal "\\/" (a backslash and a slash).
Chars(lit) == IF lit = "\\/" THEN <<"\\", "/">> ELSE <<lit>>

\* "".join(mutatable)
RECURSIVE Join(_)
Join(list) == IF list = <<>> THEN <<>> ELSE Chars(Head(list)) \o Join(Tail(list))

\* random.choice(list(enumerate(mutatable))): the <<index, letter>> pairs it may
\* return; none for an empty list, where random.choice raises IndexError.
_indexed_choice(list) == {<<j, list[j]>> : j \in 1..Len(list)}

(***************************************************************************)
(* The mutators, as the set of outcomes one call may have.                 *)
(***************************************************************************)
Ret(s) == [kind |-> "return", val |-> s]
IndexError == [kind |-> "raise", val |-> <<>>]

TableMutators ==
    {"_leet_replace", "_lowercase_replace", "_uppercase_replace", "_non_latin_replace"}

\* The test of a table-backed mutator's loop body: letter in self.<table>.
IsKey(m, c) ==
    CASE m = "_leet_replace" -> c \in DOMAIN _leet
      [] m = "_uppercase_replace" -> c \in Range(_lowercase)
      [] m = "_lowercase_replace" -> c \in Range(_uppercase)
      [] m = "_non_latin_replace" -> c \in DOMAIN _non_latin

\* The literals the loop body may write over letter c.
Substitutes(m, c) ==
    CASE m = "_leet_replace" -> Range(_leet[c])
      [] m = "_uppercase_replace" -> {_uppercase[IndexOf(_lowercase, c)]}
      [] m = "_lowercase_replace" -> {_lowercase[IndexOf(_uppercase, c)]}
      [] m = "_non_latin_replace" -> Range(_non_latin[c])

\* an overwrite one position too far (wrapping at the end)
Overwrite_next_position(list, j, lit) == [list EXCEPT ![(j % Len(list)) + 1] = lit]

\* mutatable[index] = literal
Overwrite(list, j, lit) == [list EXCEPT ![j] = lit]

\* for _ in range(n): draw; on a key overwrite, join and return; after the
\* loop join and return.  A draw that misses leaves the list as it was, so
\* every iteration has the same outcomes: the call returns an overwritten
\* list from any iteration, and the list unchanged when all n draws miss (or
\* n <= 0 and the loop body never runs).  The first draw on an empty list
\* raises.
table_replace(m, list, n) ==
    IF n <= 0 THEN {Ret(Join(list))}
    ELSE IF list = <<>> THEN {IndexError}
    ELSE LET pairs == _indexed_choice(list)
             found == UNION {{Ret(Join(Overwrite(list, p[1], lit))) :
                                 lit \in Substitutes(m, p[2])} :
                             p \in {q \in pairs : IsKey(m, q[2])}}
         IN  found \cup (IF \E p \in pairs : ~IsKey(m, p[2])
                         THEN {Ret(Join(list))} ELSE {})

\* a draw from the digits instead of the special characters
special_literals_from_numbers == Range(_numbers)

\* random.choice(self._special)
special_literals == Range(_special)

_special_replace(list) ==
    IF list = <<>> THEN {IndexError}
    ELSE {Ret(Join(Overwrite(list, p[1], lit))) :
              p \in _indexed_choice(list), lit \in special_literals}

\* A mutator the caller registers (add_mutator): any function from str to
\* str.  The sample registered here drops the first character.
custom_mutator(s) == {Ret(IF s = <<>> THEN s ELSE Tail(s))}

\* mutator(input)
Call(m, s) ==
    CASE m \in TableMutators -> table_replace(m, s, _error_limit)
      [] m = "_special_replace" -> _special_replace(s)
      [] m = "custom_mutator" -> custom_mutator(s)

(***************************************************************************)
(* The test function: opaque.  One call returns a falsy value, returns a   *)
(* truthy value, or raises.                                                *)
(***************************************************************************)
FuncDoes == {"falsy", "truthy", "raises"}

\* _run without its except clause: the error of func leaves _run.
run_without_except(does, wrv) ==
    IF does = "raises" THEN [kind |-> "raise", val |-> FALSE]
    ELSE Ret(wrv /\ does = "truthy")

\* Fuzzer._run: the try block and its bare except.
_run(does, wrv) ==
    IF does = "raises" THEN Ret(TRUE)
    ELSE Ret(wrv /\ does = "truthy")

(***************************************************************************)
(* The state after construction (Fuzzer.__init__).  The frames of run and  *)
(* of a mutator call are empty, and nothing has been observed.             *)
(***************************************************************************)
EmptyFrame ==
    /\ pc = "idle"
    /\ original_input = <<>> /\ inputs = <<>>
    /\ mutation_chance = 5 /\ trials = 0 /\ mutation_depth = 0
    /\ with_ret_val = FALSE
    /\ t = 0 /\ d = 0 /\ i = 0 /\ ret = <<>>
    /\ outcome = "none" /\ calls = 0
    /\ last = <<>> /\ applied = <<>> /\ drawn = <<>>

Init ==
    /\ _mutators = <<"_leet_replace", "_lowercase_replace", "_uppercase_replace",
                     "_special_replace", "_non_latin_replace">>
    /\ _candidates = <<>>
    /\ _error_limit = 100
    /\ error_limit = <<>>
    /\ EmptyFrame
    /\ mpc = "idle" /\ mutator = "" /\ arg = <<>> /\ mutatable = <<>>
    /\ index = 0 /\ letter = "" /\ result = <<>>
    /\ budget = 0 /\ runs = 0 /\ hits = {}
    /\ draws = 0 /\ limit_arg = 0

(***************************************************************************)
(* The arguments a caller passes to run.                                   *)
(***************************************************************************)
SeedStrings == {<<>>, <<"t">>}
SeedLists == UNION {[1..n -> SeedStrings] : n \in 0..MaxPop}
SeedArgs == [isList : {TRUE}, val : SeedLists] \cup [isList : {FALSE}, val : SeedStrings]
Chances == {-5, 5}

\* 0.1, in tenths
SPECIAL_CHANCE == 1

\* if not isinstance(inputs, list): inputs = [inputs]
Normalise(inp) == IF inp.isList THEN inp.val ELSE <<inp.val>>

\* a trial that goes on from the population the last trial left
start_of_trial_continues(orig, cur) == cur

\* inputs = original_input, at the head of a trial
start_of_trial(orig, cur) == orig

\* an append that does not look at output
record_every_input(cands, input, output) == Append(cands, input)

\* if output: self._candidates.append(input)
record(cands, input, output) == IF output THEN Append(cands, input) ELSE cands

(***************************************************************************)
(* run, one step per loop head and per call.                               *)
(***************************************************************************)
\* The test-function calls a run is to make, and at least one.
Work(nTrials, depth, n) ==
    IF nTrials * depth * n > 0 THEN nTrials * depth * n ELSE 1

run(inp, chance, nTrials, depth, wrv) ==
    /\ pc = "idle" /\ mpc = "idle"
    /\ budget + Work(nTrials, depth, Len(Normalise(inp))) <= MaxWork
    /\ budget' = budget + Work(nTrials, depth, Len(Normalise(inp)))
    /\ runs' = runs + 1
    /\ original_input' = Normalise(inp)
    /\ inputs' = Normalise(inp)
    /\ mutation_chance' = chance /\ trials' = nTrials
    /\ mutation_depth' = depth /\ with_ret_val' = wrv
    /\ t' = 0 /\ d' = 0 /\ i' = 0 /\ ret' = <<>>
    /\ pc' = "trial"
    /\ outcome' = "none" /\ calls' = 0 /\ last' = <<>>
    /\ applied' = <<>> /\ drawn' = <<>>
    /\ UNCHANGED <<engine, mframe, hits, limit_arg>>

\* run returns, or an error leaves it: its frame is gone.
RunEnds ==
    /\ pc = "done"
    /\ pc' = "idle"
    /\ original_input' = <<>> /\ inputs' = <<>>
    /\ mutation_chance' = 5 /\ trials' = 0 /\ mutation_depth' = 0
    /\ with_ret_val' = FALSE
    /\ t' = 0 /\ d' = 0 /\ i' = 0 /\ ret' = <<>>
    /\ outcome' = "none" /\ calls' = 0
    /\ last' = <<>> /\ applied' = <<>> /\ drawn' = <<>>
    /\ UNCHANGED <<engine, mframe, hits, spent, limit_arg>>

\* for _ in range(trials): inputs = original_input
TrialHead ==
    /\ pc = "trial"
    /\ IF t < trials
       THEN /\ inputs' = start_of_trial(original_input, inputs)
            /\ d' = 0
            /\ pc' = "gen"
            /\ UNCHANGED outcome
       ELSE /\ pc' = "done"
            /\ outcome' = "returned"
            /\ UNCHANGED <<inputs, d>>
    /\ UNCHANGED <<engine, config, mframe, t, i, ret, calls, hits, last,
                   applied, drawn, spent, limit_arg>>

\* for _ in range(mutation_depth):
GenHead ==
    /\ pc = "gen"
    /\ IF d < mutation_depth
       THEN /\ i' = 1 /\ pc' = "test" /\ UNCHANGED t
       ELSE /\ t' = t + 1 /\ pc' = "trial" /\ UNCHANGED i
    /\ UNCHANGED <<engine, config, mframe, inputs, d, ret, observed, spent, limit_arg>>

\* output = self._run(input, func, with_ret_val); if output: append
TestCall ==
    /\ pc = "test" /\ i <= Len(inputs)
    /\ \E does \in FuncDoes :
         LET reply == _run(does, with_ret_val) IN
         /\ calls' = calls + 1
         /\ IF reply.kind = "raise"
            THEN /\ pc' = "done" /\ outcome' = "TestError"
                 /\ last' = <<does, FALSE>>
                 /\ UNCHANGED <<_candidates, hits, i>>
            ELSE /\ _candidates' = record(_candidates, inputs[i], reply.val)
                 /\ hits' = IF reply.val THEN hits \cup {inputs[i]} ELSE hits
                 /\ last' = <<does, reply.val>>
                 /\ i' = i + 1
                 /\ UNCHANGED <<pc, outcome>>
    /\ UNCHANGED <<_mutators, _error_limit, error_limit, config, mframe, inputs,
                   t, d, ret, applied, drawn, spent, limit_arg>>

\* inputs = self._mutate_all(inputs, mutation_chance): the call; ret = []
TestDone ==
    /\ pc = "test" /\ i > Len(inputs)
    /\ pc' = "mutate_all" /\ i' = 1 /\ ret' = <<>>
    /\ last' = <<>>
    /\ UNCHANGED <<engine, config, mframe, inputs, t, d, outcome, calls, hits,
                   applied, drawn, spent, limit_arg>>

\* for input in inputs: if random.random() < mutation_chance: ... ret.append(input)
MutateAllKeep ==
    /\ pc = "mutate_all" /\ i <= Len(inputs)
    /\ \E r \in 0..9 : ~(r < mutation_chance)
    /\ ret' = Append(ret, inputs[i])
    /\ i' = i + 1
    /\ drawn' = <<>>
    /\ UNCHANGED <<engine, config, mframe, pc, inputs, t, d, outcome, calls, hits,
                   last, applied, spent, limit_arg>>

MutateAllMutate ==
    /\ pc = "mutate_all" /\ i <= Len(inputs)
    /\ \E r \in 0..9 : r < mutation_chance
    /\ pc' = "mutate"
    /\ applied' = <<>> /\ drawn' = <<>>
    /\ UNCHANGED <<engine, config, mframe, inputs, t, d, i, ret,
                   outcome, calls, hits, last, spent, limit_arg>>

\* return ret; inputs = ...; the end of the generation
MutateAllReturn ==
    /\ pc = "mutate_all" /\ i > Len(inputs)
    /\ inputs' = ret
    /\ ret' = <<>>
    /\ d' = d + 1
    /\ pc' = "gen"
    /\ drawn' = <<>>
    /\ UNCHANGED <<engine, config, mframe, t, i, outcome, calls, hits, last,
                   applied, spent, limit_arg>>

\* random.random() < special_mutation_chance, for some value random.random() may take
CheckMayPass == \E r \in 0..9 : r < SPECIAL_CHANCE
CheckMayFail == \E r \in 0..9 : ~(r < SPECIAL_CHANCE)

FailedBefore == drawn # <<>> /\ (drawn[2] = "failed" \/ drawn[3])

\* One iteration of _mutate's while True that returns mutator(input).
MutateApply ==
    /\ pc = "mutate"
    /\ \E m \in Range(_mutators) :
         /\ \/ m = "_special_replace" /\ CheckMayPass
            \/ m # "_special_replace"
         /\ drawn' = <<m, IF m = "_special_replace" THEN "passed" ELSE "unchecked",
                       FailedBefore>>
         /\ applied' = Append(applied, m)
         /\ \E out \in Call(m, inputs[i]) :
              IF out.kind = "return"
              THEN /\ ret' = Append(ret, out.val)
                   /\ i' = i + 1
                   /\ pc' = "mutate_all"
                   /\ UNCHANGED outcome
              ELSE /\ pc' = "done"
                   /\ outcome' = "IndexError"
                   /\ UNCHANGED <<ret, i>>
    /\ UNCHANGED <<engine, config, mframe, inputs, t, d, calls, hits, last,
                   spent, limit_arg>>

\* a failed check that gives up: _mutate returns its input, nothing applied
MutateReject_returns_input ==
    /\ pc = "mutate"
    /\ \E m \in Range(_mutators) :
         /\ m = "_special_replace" /\ CheckMayFail
         /\ drawn' = <<m, "failed", FailedBefore>>
    /\ ret' = Append(ret, inputs[i])
    /\ i' = i + 1
    /\ pc' = "mutate_all"
    /\ UNCHANGED <<engine, config, mframe, inputs, t, d, outcome, calls, hits,
                   last, applied, spent, limit_arg>>

\* One iteration that draws the special mutator and fails its check: nothing
\* is applied and the loop draws again.
MutateReject ==
    /\ pc = "mutate"
    /\ \E m \in Range(_mutators) :
         /\ m = "_special_replace" /\ CheckMayFail
         /\ drawn' = <<m, "failed", FailedBefore>>
    /\ UNCHANGED <<engine, config, mframe, frame, outcome, calls, hits,
                   last, applied, spent, limit_arg>>

\* self._mutators.append(mutator)
add_mutator(m) ==
    /\ pc = "idle" /\ mpc = "idle"
    /\ Len(_mutators) < 5 + MaxAdded
    /\ _mutators' = Append(_mutators, m)
    /\ UNCHANGED <<_candidates, _error_limit, error_limit, config, frame, mframe,
                   observed, spent, limit_arg>>

Next ==
    \/ /\ pc = "idle"
       /\ \E inp \in SeedArgs, chance \in Chances, nTrials \in 0..MaxWork,
             depth \in 0..MaxWork, wrv \in BOOLEAN :
             run(inp, chance, nTrials, depth, wrv)
    \/ RunEnds
    \/ TrialHead
    \/ GenHead
    \/ TestCall
    \/ TestDone
    \/ MutateAllKeep
    \/ MutateAllMutate
    \/ MutateAllReturn
    \/ MutateApply
    \/ MutateReject
    \/ add_mutator("custom_mutator")

Spec == Init /\ [][Next]_vars

\* random.choice and random.random are fair: a loop that a draw can leave is
\* left.  _mutate's loop is left by any draw of a mutator other than the
\* special one, and by a draw of the special one whose check passes.
FairSpec == Init /\ [][Next]_vars /\ WF_vars(MutateApply)

(***************************************************************************)
(* One mutator call, one step per loop iteration.                          *)
(***************************************************************************)
MutAlphabet == {"a", "v", "K", "."}
MutInputs == UNION {[1..n -> MutAlphabet] : n \in 0..MaxLen}
BuiltIn == TableMutators \cup {"_special_replace"}

\* self.error_limit = self._error_limit
set_error_limit(n) ==
    /\ pc = "idle" /\ mpc = "idle"
    /\ error_limit' = <<_error_limit>>
    /\ limit_arg' = n
    /\ UNCHANGED <<_mutators, _candidates, _error_limit, config, frame, mframe,
                   observed, spent>>

\* mutatable = list(mutatable)
CallMutator(m, s) ==
    /\ pc = "idle" /\ mpc = "idle"
    /\ mutator' = m /\ arg' = s /\ mutatable' = s
    /\ mpc' = IF m = "_special_replace" THEN "special" ELSE "loop"
    /\ index' = 0 /\ letter' = "" /\ result' = <<>> /\ draws' = 0
    /\ UNCHANGED <<engine, config, frame, observed, spent, limit_arg>>

\* for _ in range(self._error_limit): one iteration
TableDraw ==
    /\ mpc = "loop" /\ draws < _error_limit
    /\ draws' = draws + 1
    /\ IF mutatable = <<>>
       THEN /\ mpc' = "raised"
            /\ UNCHANGED <<mutatable, index, letter, result>>
       ELSE \E p \in _indexed_choice(mutatable) :
              /\ index' = p[1] /\ letter' = p[2]
              /\ IF IsKey(mutator, p[2])
                 THEN \E lit \in Substitutes(mutator, p[2]) :
                        /\ mutatable' = Overwrite(mutatable, p[1], lit)
                        /\ result' = Join(mutatable')
                        /\ mpc' = "returned"
                 ELSE UNCHANGED <<mutatable, result, mpc>>
    /\ UNCHANGED <<engine, config, frame, mutator, arg, observed, spent, limit_arg>>

\* the loop is exhausted: join and return
TableGiveUp ==
    /\ mpc = "loop" /\ ~(draws < _error_limit)
    /\ result' = Join(mutatable)
    /\ mpc' = "returned"
    /\ UNCHANGED <<engine, config, frame, mutator, arg, mutatable, index, letter,
                   draws, observed, spent, limit_arg>>

\* _special_replace: one draw, one overwrite
SpecialDraw ==
    /\ mpc = "special"
    /\ draws' = draws + 1
    /\ IF mutatable = <<>>
       THEN /\ mpc' = "raised"
            /\ UNCHANGED <<mutatable, index, letter, result>>
       ELSE \E p \in _indexed_choice(mutatable), lit \in special_literals :
              /\ index' = p[1] /\ letter' = p[2]
              /\ mutatable' = Overwrite(mutatable, p[1], lit)
              /\ result' = Join(mutatable')
              /\ mpc' = "returned"
    /\ UNCHANGED <<engine, config, frame, mutator, arg, observed, spent, limit_arg>>

\* the call returns, or IndexError leaves it: its frame is gone.
MutatorEnds ==
    /\ mpc \in {"returned", "raised"}
    /\ mpc' = "idle" /\ mutator' = "" /\ arg' = <<>> /\ mutatable' = <<>>
    /\ index' = 0 /\ letter' = "" /\ result' = <<>> /\ draws' = 0
    /\ UNCHANGED <<engine, config, frame, observed, spent, limit_arg>>

MutNext ==
    \/ \E n \in 1..MaxLimitArg : set_error_limit(n)
    \/ /\ mpc = "idle"
       /\ \E m \in BuiltIn, s \in MutInputs : CallMutator(m, s)
    \/ TableDraw
    \/ TableGiveUp
    \/ SpecialDraw
    \/ MutatorEnds

MutSpec == Init /\ [][MutNext]_vars

\* A call that steps through its loop ends as the call taken in one step may.
StepwiseAgrees ==
    /\ mpc = "returned" => Ret(result) \in Call(mutator, arg)
    /\ mpc = "raised" => IndexError \in Call(mutator, arg)

(***************************************************************************)
(* The claims.                                                             *)
(***************************************************************************)
ValidConfig ==
    trials >= 1 /\ mutation_depth >= 1 /\ 0 <= mutation_chance /\ mutation_chance <= 10

HasEmpty(list) == \E k \in 1..Len(list) : list[k] = <<>>

\* C1: the hit decision of one test-function call.  Without with_ret_val the
\* call is a hit exactly when func raised; with it, exactly when func returned
\* a truthy value or raised.  No error of func ever leaves run.
C1_HitDecision ==
    /\ last # <<>> =>
         /\ ~with_ret_val => (last[2] <=> last[1] = "raises")
         /\ with_ret_val => (last[2] <=> last[1] \in {"truthy", "raises"})
    /\ outcome # "TestError"

\* func raised in boolean mode: the call is a hit and the run goes on.
C1_Witness ==
    /\ pc = "test" /\ with_ret_val
    /\ last = <<"raises", TRUE>>
    /\ _candidates # <<>>

\* C2: every string of the candidate store was passed to the test function
\* by a call that signalled a hit, and the store only grows: each step keeps
\* the entries it holds, in place.
C2_StoreHoldsOnlyHits ==
    /\ [](\A k \in 1..Len(_candidates) : _candidates[k] \in hits)
    /\ [][/\ Len(_candidates') >= Len(_candidates)
          /\ SubSeq(_candidates', 1, Len(_candidates)) = _candidates]_vars

\* A second run has added a hit to the store the first run left.
C2_Witness ==
    /\ runs = 2 /\ pc = "done" /\ calls = 1
    /\ Len(_candidates) = 2

\* C3: at the start of every trial the working population is the seed
\* population, whatever the earlier trials did to it, and no step of a run
\* changes the seed population.
C3_TrialsRestartFromSeeds ==
    /\ []((pc = "gen" /\ d = 0) => inputs = original_input)
    /\ [][(pc # "idle" /\ pc' # "idle") => original_input' = original_input]_vars

\* The second trial starts from the seed "t" after the first trial's leet
\* mutation had turned the population into "7".
C3_Witness ==
    /\ pc = "gen" /\ d = 0 /\ t = 1
    /\ original_input = << <<"t">> >>
    /\ applied = <<"_leet_replace">>
    /\ inputs = original_input

\* The entries a table-backed mutator's substitution table holds for c.
TableEntries(m, c) ==
    CASE m = "_leet_replace" -> IF c \in DOMAIN _leet THEN Range(_leet[c]) ELSE {}
      [] m = "_non_latin_replace" ->
            IF c \in DOMAIN _non_latin THEN Range(_non_latin[c]) ELSE {}
      [] m = "_uppercase_replace" ->
            {_uppercase[j] : j \in {j2 \in 1..Len(_lowercase) : _lowercase[j2] = c}}
      [] m = "_lowercase_replace" ->
            {_lowercase[j] : j \in {j2 \in 1..Len(_uppercase) : _uppercase[j2] = c}}

\* The positions where two strings of one length differ.
DiffersAt(a, b) == {j \in 1..Len(a) : a[j] # b[j]}

TableCallReturned == mpc = "returned" /\ mutator \in TableMutators /\ arg # <<>>
SpecialCallReturned == mpc = "returned" /\ mutator = "_special_replace" /\ arg # <<>>

C5_SpecialAlwaysChanges ==
    SpecialCallReturned =>
        /\ Len(result) = Len(arg)
        /\ Cardinality(DiffersAt(arg, result)) = 1

\* C5 as amended: the result has the length of the argument and differs from
\* it at most in the drawn position, which holds a special character; so it
\* equals the argument only when the drawn position already held the drawn
\* special character, and differs in exactly one position when the argument
\* holds no special character.
C5_SpecialOverwritesOnePosition ==
    SpecialCallReturned =>
        /\ Len(result) = Len(arg)
        /\ index \in 1..Len(arg)
        /\ DiffersAt(arg, result) \subseteq {index}
        /\ result[index] \in {".", "*", "#"}
        /\ result = arg => arg[index] \in {".", "*", "#"}
        /\ (\A j \in 1..Len(arg) : arg[j] \notin {".", "*", "#"})
              => Cardinality(DiffersAt(arg, result)) = 1

\* The "." of "a." was drawn and overwritten with ".": nothing changed.
C5_Witness ==
    /\ SpecialCallReturned
    /\ arg = <<"a", ".">> /\ index = 2
    /\ result = arg

\* C6: after set_error_limit(n) a table-backed mutator call draws at most n
\* indexed characters.
C6_RetryBoundIsArgument ==
    (limit_arg > 0 /\ mpc \in {"loop", "returned"} /\ mutator \in TableMutators)
        => draws <= limit_arg

\* C7: a run whose population holds an empty string never calls the indexed
\* character selector on it, and returns.
C7_EmptyStringNeverFailsRun ==
    (pc = "done" /\ HasEmpty(inputs)) => outcome = "returned"

\* C8: run with an invalid configuration ends in an error, before any
\* test-function call and any mutation.
C8_InvalidConfigFailsFast ==
    (pc = "done" /\ ~ValidConfig) =>
        /\ outcome # "returned"
        /\ calls = 0 /\ applied = <<>>

C10_EveryGenerationIsTested ==
    (pc = "done" /\ ValidConfig) =>
        calls = trials * mutation_depth * Len(original_input)

====
